---- MODULE Spec2Model ----
(***************************************************************************)
(* A model of the hamza-html-builder library: the HTML parser of           *)
(* document_parser.cpp, the element tree of element.cpp and                *)
(* self_closing_element.cpp, its serializer, deep copy and the {{key}}     *)
(* template substitution.                                                  *)
(*                                                                         *)
(* Strings are sequences of one-character strings.  Positions are the      *)
(* 0-based positions of std::string, so the character at position i of s   *)
(* is s[i + 1].                                                            *)
(***************************************************************************)
EXTENDS Integers, Sequences, FiniteSets, TLC

(***************************************************************************)
(* Strings                                                                 *)
(***************************************************************************)

\* The characters of a string literal, as a sequence.
S(str) == [i \in 1..Len(str) |-> SubSeq(str, i, i)]

\* std::string::npos, the "not found" position; larger than every position.
npos == 2147483647

\* The characters the model uses, in ascending order of their codes.
Ascii == S("\t\n\r !\"-/<=>ABCDEFGHIJKLMNOPQRSTUVWXYZabcdefghijklmnopqrstuvwxyz{}")

CharCode(c) == CHOOSE i \in 1..Len(Ascii) : Ascii[i] = c

UpperCase == {Ascii[i] : i \in 12..37}

\* ::tolower on one character.
tolower(c) == IF c \in UpperCase THEN Ascii[CharCode(c) + 26] ELSE c

ToLowerStr(s) == [i \in 1..Len(s) |-> tolower(s[i])]

\* operator< of std::string: lexicographic order on character codes.
RECURSIVE StrLess(_, _)
StrLess(a, b) ==
    IF b = <<>> THEN FALSE
    ELSE IF a = <<>> THEN TRUE
    ELSE IF a[1] # b[1] THEN CharCode(a[1]) < CharCode(b[1])
    ELSE StrLess(Tail(a), Tail(b))

\* s.substr(pos, len): at most len characters from position pos.
SubStr(s, pos, len) ==
    LET last == IF pos + len > Len(s) THEN Len(s) ELSE pos + len
    IN  SubSeq(s, pos + 1, last)

\* s.substr(pos): everything from position pos.
SubStrFrom(s, pos) == SubSeq(s, pos + 1, Len(s))

\* s.erase(pos, len)
Erase(s, pos, len) == SubStr(s, 0, pos) \o SubStrFrom(s, pos + len)

\* s.replace(pos, len, by)
Replace(s, pos, len, by) == SubStr(s, 0, pos) \o by \o SubStrFrom(s, pos + len)

\* s.find(pat, from): the first position >= from where pat occurs, or npos.
RECURSIVE Find(_, _, _)
Find(s, pat, from) ==
    IF from + Len(pat) > Len(s) THEN npos
    ELSE IF SubSeq(s, from + 1, from + Len(pat)) = pat THEN from
    ELSE Find(s, pat, from + 1)

WhiteSpace == {" ", "\t", "\n", "\r"}

\* s.find_first_not_of(" \t\n\r")
RECURSIVE FirstNotWs(_, _)
FirstNotWs(s, from) ==
    IF from >= Len(s) THEN npos
    ELSE IF s[from + 1] \notin WhiteSpace THEN from
    ELSE FirstNotWs(s, from + 1)

\* s.find_last_not_of(" \t\n\r"), scanning down from position from.
RECURSIVE LastNotWs(_, _)
LastNotWs(s, from) ==
    IF from < 0 THEN npos
    ELSE IF s[from + 1] \notin WhiteSpace THEN from
    ELSE LastNotWs(s, from - 1)

trim(str) ==
    LET start == FirstNotWs(str, 0)
    IN  IF start = npos THEN <<>>
        ELSE LET end == LastNotWs(str, Len(str) - 1)
             IN  SubStr(str, start, end - start + 1)

\* Concatenation of a sequence of strings.
RECURSIVE Concat(_)
Concat(ss) == IF ss = <<>> THEN <<>> ELSE Head(ss) \o Concat(Tail(ss))

(***************************************************************************)
(* std::map<std::string, std::string>: a function from keys to values.     *)
(***************************************************************************)

EmptyMap == [k \in {} |-> <<>>]

MapPut(m, k, v) == [x \in DOMAIN m \cup {k} |-> IF x = k THEN v ELSE m[x]]

MapErase(m, k) == [x \in DOMAIN m \ {k} |-> m[x]]

\* The keys of a map, greatest first.
RECURSIVE KeysDescending(_)
KeysDescending(ks) ==
    IF ks = {} THEN <<>>
    ELSE LET greatest == CHOOSE k \in ks : \A o \in ks \ {k} : StrLess(o, k)
         IN  <<greatest>> \o KeysDescending(ks \ {greatest})

\* The keys of a map in the iteration order of std::map (ascending).
RECURSIVE SortedKeys(_)
SortedKeys(ks) ==
    IF ks = {} THEN <<>>
    ELSE LET least == CHOOSE k \in ks : \A o \in ks \ {k} : StrLess(k, o)
         IN  <<least>> \o SortedKeys(ks \ {least})

(***************************************************************************)
(* Preprocessing (document_parser.cpp)                                     *)
(***************************************************************************)

\* Outcome of a step that can throw std::runtime_error.
NoError == [kind |-> "none"]
UnterminatedComment == [kind |-> "UnterminatedComment"]
UnterminatedTag == [kind |-> "UnterminatedTag"]
MismatchedClosingTag(expected, found) ==
    [kind |-> "MismatchedClosingTag", expected |-> expected, found |-> found]

has_doctype(html) == Find(html, S("<!doctype"), 0) # npos

\* The extracted declaration and the html left after its removal.
extract_doctype(html) ==
    LET start == Find(html, S("<!doctype"), 0)
    IN  IF start = npos THEN [doctype |-> <<>>, html |-> html]
        ELSE LET end == Find(html, S(">"), start)
             IN  IF end = npos THEN [doctype |-> <<>>, html |-> html]
                 ELSE [doctype |-> SubStr(html, start, end - start + 1),
                       html |-> Erase(html, start, end - start + 1)]

RECURSIVE LowerLoop(_, _)
LowerLoop(html, from) ==
    LET pos == Find(html, S("<"), from)
    IN  IF pos = npos THEN html
        ELSE LET end_pos == Find(html, S(">"), pos)
             IN  IF end_pos = npos THEN html
                 ELSE LET sp == Find(html, S(" "), pos + 1)
                          e1 == IF sp = npos THEN end_pos ELSE sp
                          e2 == IF e1 < end_pos THEN e1 ELSE end_pos
                          tag == ToLowerStr(SubStr(html, pos + 1, e2 - pos - 1))
                      IN  LowerLoop(Replace(html, pos + 1, e2 - pos - 1, tag),
                                    end_pos + 1)

transform_tags_to_lower_case(html) == LowerLoop(html, 0)

remove_all_line_breaks(html) == SelectSeq(html, LAMBDA c : c # "\n")

\* The html without comments, or the error of an unclosed comment.
RECURSIVE CommentLoop(_, _)
CommentLoop(html, from) ==
    LET pos == Find(html, S("<!--"), from)
    IN  IF pos = npos THEN [html |-> html, err |-> NoError]
        ELSE LET end_pos == Find(html, S("-->"), pos + 4)
             IN  IF end_pos = npos
                 THEN [html |-> html, err |-> UnterminatedComment]
                 ELSE CommentLoop(Erase(html, pos, end_pos - pos + 3), pos)

\* The text left as it is, comments included.
CommentsKept(html) == [html |-> html, err |-> NoError]

remove_all_comments(html) == CommentLoop(html, 0)

(***************************************************************************)
(* Attributes and tag classification                                       *)
(***************************************************************************)

\* The scan loop of parse_attributes; st holds its local variables.
RECURSIVE AttrLoop(_, _, _)
\* A scan in which = ends a key inside quotes too.
InQuotesEqualsEndsKey(st, c) ==
    IF c = "=" THEN [st EXCEPT !.key = trim(st.current), !.current = <<>>]
    ELSE IF c = "\""
    THEN [open |-> FALSE, current |-> <<>>, key |-> <<>>,
          attrs |-> MapPut(st.attrs, st.key, SubSeq(st.current, 2, Len(st.current)))]
    ELSE [st EXCEPT !.current = Append(st.current, c)]

\* One character while did_open_an_attribute: current += c, and a quote
\* closes the value: erase(begin()); pop_back(); store; reset.
InQuotes(st, c) ==
    IF c = "\""
    THEN [open |-> FALSE, current |-> <<>>, key |-> <<>>,
          attrs |-> MapPut(st.attrs, st.key, SubSeq(st.current, 2, Len(st.current)))]
    ELSE [st EXCEPT !.current = Append(st.current, c)]

\* One character while !did_open_an_attribute: = ends the key, any other
\* character is appended; a quote opens a value, whitespace stores what
\* was read as a boolean attribute and forgets the key.
OutOfQuotes(st, c) ==
    IF c = "=" THEN [st EXCEPT !.key = trim(st.current), !.current = <<>>]
    ELSE IF c = "\"" THEN [st EXCEPT !.current = Append(st.current, c), !.open = TRUE]
    ELSE IF c \in {" ", "\t", "\n"}
    THEN [open |-> FALSE, current |-> <<>>, key |-> <<>>,
          attrs |-> IF trim(Append(st.current, c)) # <<>>
                    THEN MapPut(st.attrs, trim(Append(st.current, c)), <<>>)
                    ELSE st.attrs]
    ELSE [st EXCEPT !.current = Append(st.current, c)]

\* for (i = 0; i < attr_string.size(); i++), by did_open_an_attribute.
AttrLoop(s, i, st) ==
    IF i >= Len(s) THEN st
    ELSE CHOOSE after \in
             {AttrLoop(s, i + 1,
                       IF now.open THEN InQuotes(now, s[i + 1])
                       ELSE OutOfQuotes(now, s[i + 1])) : now \in {st}} : TRUE

\* The end of parse_attributes without the three erase calls.
AfterLoopNoErase(st) ==
    IF st.current # <<>> /\ trim(st.current) # <<>>
    THEN MapPut(st.attrs, trim(st.current), <<>>)
    ELSE st.attrs

\* Lines 169-180: the last bare name is stored, then three keys are erased.
AfterLoop(st) ==
    MapErase(MapErase(MapErase(
        IF st.current # <<>> /\ trim(st.current) # <<>>
        THEN MapPut(st.attrs, trim(st.current), <<>>)
        ELSE st.attrs,
        <<>>), S("/")), S(" "))

parse_attributes(attr_string) ==
    IF attr_string = <<>> THEN EmptyMap
    ELSE CHOOSE attrs \in
             {AfterLoop(st) :
                 st \in {AttrLoop(trimmed, 0,
                                  [open |-> FALSE, current |-> <<>>, key |-> <<>>,
                                   attrs |-> EmptyMap]) :
                             trimmed \in {trim(attr_string)}}} : TRUE

get_self_closing_tags ==
    {S("area"), S("base"), S("br"), S("col"), S("embed"), S("hr"), S("img"),
     S("input"), S("link"), S("meta"), S("param"), S("source"), S("track"),
     S("wbr")}

is_self_closing_tag(tag) == ToLowerStr(tag) \in get_self_closing_tags

\* <<tag name, attribute string>>: split at the first space.
extract_tag_and_attributes(tag_content) ==
    LET space_pos == Find(tag_content, S(" "), 0)
    IN  IF space_pos = npos THEN <<tag_content, <<>>>>
        ELSE <<SubStr(tag_content, 0, space_pos),
               SubStrFrom(tag_content, space_pos + 1)>>

(***************************************************************************)
(* Element values: the trees the parser builds                             *)
(***************************************************************************)

\* element(tag, text_content, attributes) with no children yet.
element(tag, text_content, attributes) ==
    [kind |-> "element", tag |-> tag, text_content |-> text_content,
     attributes |-> attributes, children |-> <<>>]

\* self_closing_element(tag, attributes)
self_closing_element(tag, attributes) ==
    [kind |-> "self_closing_element", tag |-> tag, text_content |-> <<>>,
     attributes |-> attributes, children |-> <<>>]

\* doctype_element(doctype) : element("!DOCTYPE", doctype)
doctype_element(doctype) ==
    [kind |-> "doctype_element", tag |-> S("!DOCTYPE"), text_content |-> doctype,
     attributes |-> EmptyMap, children |-> <<>>]

\* A text node under the tag that to_string prints bare.
TextElementNoTag(text_content) == element(S("NO_TAG"), text_content, EmptyMap)

\* The text node the parser makes of a run of text: element("text", text).
TextElement(text_content) == element(S("text"), text_content, EmptyMap)

\* A text node for every run of text that is not empty.
WithTextOfBlanks(result, text_content) ==
    IF text_content # <<>>
    THEN Append(result, TextElement(text_content))
    ELSE result

\* if (!text.empty() && text.find_first_not_of(" \t\n\r") != npos) push_back
WithText(result, text_content) ==
    IF text_content # <<>> /\ FirstNotWs(text_content, 0) # npos
    THEN Append(result, TextElement(text_content))
    ELSE result

(***************************************************************************)
(* The tree builder, parse_html_optimized.  It returns the forest, the     *)
(* position where it stopped and the error it threw, if any.               *)
(***************************************************************************)

Thrown(err) == [result |-> <<>>, pos |-> 0, err |-> err]

\* A builder that never compares the closing tag with the opening tag.
ClosingTagNeverVerified(closing_tag_content, tag_name) == FALSE

\* A builder that compares the name of the bare closing tag "</>" too.
ClosingTagVerifiedAnyLength(closing_tag_content, tag_name) ==
    /\ Len(closing_tag_content) > 0
    /\ closing_tag_content[1] = "/"
    /\ trim(SubStrFrom(closing_tag_content, 1)) # tag_name

\* if (closing_tag_content.length() > 1 && closing_tag_content[0] == '/')
\*     closing_tag_name = trim(substr(1)); throw if it differs from tag_name
ClosingTagMismatch(closing_tag_content, tag_name) ==
    /\ Len(closing_tag_content) > 1
    /\ closing_tag_content[1] = "/"
    /\ trim(SubStrFrom(closing_tag_content, 1)) # tag_name

\* return {result, pos};
Returned(result, pos) == [result |-> result, pos |-> pos, err |-> NoError]

\* The element of an opening tag, holding the children the recursive call
\* returned: make_shared<element>(tag_name, parsed_attributes), add_child.
OpeningElement(tag_name, parsed_attributes, children) ==
    [element(tag_name, <<>>, parsed_attributes) EXCEPT !.children = children]

RECURSIVE ParseLoop(_, _, _, _)

\* Lines 429-457: the caller consumes the closing tag where the recursive
\* call stopped, after comparing its name with the opening tag's.
AtClosingTag(html, end, result, tag_name, closing_pos, closing_tag_end) ==
    IF closing_tag_end = npos THEN Thrown(UnterminatedTag)
    ELSE IF ClosingTagMismatch(
              SubStr(html, closing_pos + 1, closing_tag_end - closing_pos - 1),
              tag_name)
    THEN Thrown(MismatchedClosingTag(tag_name,
           trim(SubStrFrom(
             SubStr(html, closing_pos + 1, closing_tag_end - closing_pos - 1), 1))))
    ELSE ParseLoop(html, closing_tag_end + 1, end, result)

\* A caller that looks for the closing tag even at the end of the range.
AfterChildrenStrict(html, end, result, tag_name, parsed_attributes, sub) ==
    IF sub.err # NoError THEN sub
    ELSE AtClosingTag(html, end,
           Append(result, OpeningElement(tag_name, parsed_attributes, sub.result)),
           tag_name, sub.pos, Find(html, S(">"), sub.pos))

\* Lines 419-457: sub is what the recursive call returned (or threw).
AfterChildren(html, end, result, tag_name, parsed_attributes, sub) ==
    IF sub.err # NoError THEN sub
    ELSE IF sub.pos < end
    THEN AtClosingTag(html, end,
           Append(result, OpeningElement(tag_name, parsed_attributes, sub.result)),
           tag_name, sub.pos, Find(html, S(">"), sub.pos))
    ELSE ParseLoop(html, end, end,
           Append(result, OpeningElement(tag_name, parsed_attributes, sub.result)))

\* Lines 406-419: a void tag is appended at this level, any other tag
\* opens an element whose children a recursive call parses.
AtOpeningTag(html, end, result, tag_end, tag_name, parsed_attributes) ==
    IF is_self_closing_tag(tag_name)
    THEN ParseLoop(html, tag_end + 1, end,
           Append(result, self_closing_element(tag_name, parsed_attributes)))
    ELSE AfterChildren(html, end, result, tag_name, parsed_attributes,
           ParseLoop(html, tag_end + 1, end, <<>>))

\* Lines 386-404: empty tag, closing tag, or a tag with name and attributes.
AtTagContent(html, end, result, tag_start, tag_end, tag_content) ==
    IF tag_content = <<>> THEN ParseLoop(html, tag_end + 1, end, result)
    ELSE IF tag_content[1] = "/" THEN Returned(result, tag_start)
    ELSE AtOpeningTag(html, end, result, tag_end,
           trim(extract_tag_and_attributes(tag_content)[1]),
           parse_attributes(trim(extract_tag_and_attributes(tag_content)[2])))

\* A tag that does not end taken as text up to the end of the range.
AtTagEndLenient(html, end, result, tag_start, tag_end) ==
    IF tag_end = npos \/ tag_end >= end
    THEN Returned(WithText(result, SubStr(html, tag_start, end - tag_start)), end)
    ELSE AtTagContent(html, end, result, tag_start, tag_end,
           SubStr(html, tag_start + 1, tag_end - tag_start - 1))

\* Lines 376-384: the tag must end before the end of the range.
AtTagEnd(html, end, result, tag_start, tag_end) ==
    IF tag_end = npos \/ tag_end >= end THEN Thrown(UnterminatedTag)
    ELSE AtTagContent(html, end, result, tag_start, tag_end,
           SubStr(html, tag_start + 1, tag_end - tag_start - 1))

\* Lines 350-377: the text up to the next tag, or up to the end.
AtTagStart(html, pos, end, result, tag_start) ==
    IF tag_start = npos \/ tag_start >= end
    THEN Returned(WithText(result, SubStr(html, pos, end - pos)), end)
    ELSE AtTagEnd(html, end,
           IF tag_start > pos
           THEN WithText(result, SubStr(html, pos, tag_start - pos))
           ELSE result,
           tag_start, Find(html, S(">"), tag_start))

\* One iteration of while (pos < end), and the rest of the loop after it.
ParseLoop(html, pos, end, result) ==
    IF pos >= end THEN Returned(result, end)
    ELSE AtTagStart(html, pos, end, result, Find(html, S("<"), pos))

parse_html_optimized(html, start, end) == ParseLoop(html, start, end, <<>>)

\* solve_recursive keeps the forest of the top-level call only.
solve_recursive(html) == parse_html_optimized(html, 0, Len(html))

\* doctype.pop_back(); doctype.erase(begin, begin + 9)
DoctypePayload(doctype) == SubStrFrom(SubStr(doctype, 0, Len(doctype) - 1), 9)

\* The doctype node put after the roots.
DoctypeAppended(doctype, solved) ==
    IF solved.err # NoError THEN [result |-> <<>>, err |-> solved.err]
    ELSE IF doctype # <<>>
    THEN [result |-> solved.result \o <<doctype_element(DoctypePayload(doctype))>>,
          err |-> NoError]
    ELSE [result |-> solved.result, err |-> NoError]

\* The doctype node, when a declaration was extracted, before the roots.
WithDoctype(doctype, solved) ==
    IF solved.err # NoError THEN [result |-> <<>>, err |-> solved.err]
    ELSE IF doctype # <<>>
    THEN [result |-> <<doctype_element(DoctypePayload(doctype))>> \o solved.result,
          err |-> NoError]
    ELSE [result |-> solved.result, err |-> NoError]

\* Lines 490-509: d is the extracted declaration and the html left.
AfterDoctype(d) == WithDoctype(d.doctype, solve_recursive(d.html))

\* Lines 488-494: html is the text without comments.
AfterComments(html) ==
    IF has_doctype(html) THEN AfterDoctype(extract_doctype(html))
    ELSE AfterDoctype([doctype |-> <<>>, html |-> html])

\* Preprocessing that goes on after remove_all_comments threw.
CommentErrorIgnored(c) ==
    AfterComments(remove_all_line_breaks(transform_tags_to_lower_case(c.html)))

\* Lines 487-489: c is what remove_all_comments left (or threw).
Preprocessed(c) ==
    IF c.err # NoError THEN [result |-> <<>>, err |-> c.err]
    ELSE AfterComments(
           remove_all_line_breaks(transform_tags_to_lower_case(c.html)))

\* parse_html_string: the forest and NoError, or no forest and the error.
parse_html_string(html) == Preprocessed(remove_all_comments(html))

(***************************************************************************)
(* Serialization: element::to_string and its overrides                     *)
(***************************************************************************)

\* " name" for an empty value, " name=\"value\"" otherwise, in key order.
RECURSIVE AttrsToString(_, _)
AttrsToString(attributes, keys) ==
    IF keys = <<>> THEN <<>>
    ELSE LET k == Head(keys)
         IN  (IF attributes[k] = <<>> THEN S(" ") \o k
              ELSE S(" ") \o k \o S("=\"") \o attributes[k] \o S("\""))
             \o AttrsToString(attributes, Tail(keys))

\* A void element printed like an element with content.
VoidWithContent(e) ==
    S("<") \o e.tag
    \o AttrsToString(e.attributes, SortedKeys(DOMAIN e.attributes))
    \o S(">\n") \o e.text_content \o S("\n") \o S("</") \o e.tag \o S(">\n")

\* self_closing_element::to_string
self_closing_to_string(e) ==
    S("<") \o e.tag
    \o AttrsToString(e.attributes, SortedKeys(DOMAIN e.attributes))
    \o S(" />")

RECURSIVE to_string(_)
RECURSIVE ChildrenToString(_)
ChildrenToString(children) ==
    IF children = <<>> THEN <<>>
    ELSE to_string(Head(children)) \o ChildrenToString(Tail(children))

to_string(e) ==
    IF e.kind = "doctype_element"
    THEN S("<!DOCTYPE ") \o e.text_content \o S(">")
    ELSE IF e.kind = "self_closing_element"
    THEN self_closing_to_string(e)
    ELSE IF e.tag = S("NO_TAG") THEN e.text_content
    ELSE IF e.tag = <<>> THEN ChildrenToString(e.children)
    ELSE S("<") \o e.tag
         \o AttrsToString(e.attributes, SortedKeys(DOMAIN e.attributes))
         \o S(">\n") \o e.text_content \o S("\n")
         \o ChildrenToString(e.children)
         \o S("</") \o e.tag \o S(">\n")

\* The serialization of a forest: its roots' serializations in order.
ForestToString(forest) == ChildrenToString(forest)

(***************************************************************************)
(* Template substitution: parse_html_with_params                           *)
(***************************************************************************)

\* "{{" + param.first + "}}"
Placeholder(key) == S("{{") \o key \o S("}}")

\* A loop that replaces the first occurrence only.
ReplaceFirstOnly(result, placeholder, value, pos) ==
    IF Find(result, placeholder, pos) = npos THEN result
    ELSE Replace(result, Find(result, placeholder, pos), Len(placeholder), value)

RECURSIVE ReplaceLoop(_, _, _, _)

\* The body of the while loop: replace at found, pos = found + value.length().
AtFound(result, placeholder, value, found) ==
    IF found = npos THEN result
    ELSE ReplaceLoop(Replace(result, found, Len(placeholder), value),
                     placeholder, value, found + Len(value))

\* while ((pos = result.find(placeholder, pos)) != npos) ...
ReplaceLoop(result, placeholder, value, pos) ==
    AtFound(result, placeholder, value, Find(result, placeholder, pos))

\* for (const auto &param : params), in the key order of std::map.
RECURSIVE ParamsLoop(_, _, _)
ParamsLoop(result, params, keys) ==
    IF keys = <<>> THEN result
    ELSE ParamsLoop(ReplaceLoop(result, Placeholder(Head(keys)), params[Head(keys)], 0),
                    params, Tail(keys))

parse_html_with_params(text, params) ==
    ParamsLoop(text, params, SortedKeys(DOMAIN params))

(***************************************************************************)
(* Elements as objects: a heap of elements, each holding the heap          *)
(* positions of its children (std::vector<std::shared_ptr<element>>).      *)
(***************************************************************************)

Range(seq) == {seq[i] : i \in DOMAIN seq}

\* Every element reachable from id by way of children, id included.
RECURSIVE Reach(_, _)
Reach(h, id) == {id} \cup UNION {Reach(h, c) : c \in Range(h[id].children)}

\* The tree below id as a value: each child position replaced by its tree.
RECURSIVE Deep(_, _)
Deep(h, id) ==
    [h[id] EXCEPT !.children = [i \in DOMAIN h[id].children |->
                                   Deep(h, h[id].children[i])]]

\* element::add_child; self_closing_element::add_child does nothing.
add_child(h, parent, child) ==
    IF h[parent].kind = "self_closing_element" THEN h
    ELSE [h EXCEPT ![parent].children = Append(@, child)]

\* element::set_text_content; self_closing_element's does nothing.
set_text_content(h, id, text_content) ==
    IF h[id].kind = "self_closing_element" THEN h
    ELSE [h EXCEPT ![id].text_content = text_content]

\* element::set_text_content(text_content, params): defined for element only,
\* so it writes the member of an element of any kind.
set_text_content_with_params(h, id, text_content, params) ==
    [h EXCEPT ![id].text_content = parse_html_with_params(text_content, params)]

\* get_text_content of the base class: the member.
ElementGetTextContent(h, id) == h[id].text_content

\* element::get_text_content; self_closing_element's returns "".
get_text_content(h, id) ==
    IF h[id].kind = "self_closing_element" THEN <<>> ELSE h[id].text_content

\* element::get_children; self_closing_element's returns {}.
get_children(h, id) ==
    IF h[id].kind = "self_closing_element" THEN <<>> ELSE h[id].children

\* element copy = *this; and nothing more: the children stay shared.
ShallowCopy(h, id) ==
    [heap |-> Append(h, [h[id] EXCEPT !.kind = "element"]), id |-> Len(h) + 1]

\* The new element of a copy: an element (not a subclass) with the tag,
\* text and attributes of the original and the copied children.
Allocate(copied, original) ==
    [heap |-> Append(copied.heap, [original EXCEPT !.kind = "element",
                                                   !.children = copied.ids]),
     id |-> Len(copied.heap) + 1]

RECURSIVE CopyNode(_, _)

\* for (child : children) copy.add_child(make_shared<element>(child->copy()))
RECURSIVE CopyChildren(_, _, _)
CopyChildren(h, children, ids) ==
    IF children = <<>> THEN [heap |-> h, ids |-> ids]
    ELSE CopyChildren(CopyNode(h, Head(children)).heap, Tail(children),
                      Append(ids, Len(CopyNode(h, Head(children)).heap)))

\* element::copy: the heap with the copy in it, and the copy's position.
CopyNode(h, id) == Allocate(CopyChildren(h, h[id].children, <<>>), h[id])

\* element::set_text_params
set_text_params(h, id, params) ==
    [h EXCEPT ![id].text_content = parse_html_with_params(@, params)]

RECURSIVE set_text_params_recursive(_, _, _)

\* for (child : children) child->set_text_params_recursive(params)
RECURSIVE ParamsOfChildren(_, _, _)
ParamsOfChildren(h, children, params) ==
    IF children = <<>> THEN h
    ELSE ParamsOfChildren(set_text_params_recursive(h, Head(children), params),
                          Tail(children), params)

\* element::set_text_params_recursive
set_text_params_recursive(h, id, params) ==
    ParamsOfChildren(set_text_params(h, id, params), h[id].children, params)

(***************************************************************************)
(* State                                                                   *)
(***************************************************************************)

VARIABLES
    input,          \* the text handed to parse_html_string
    forest,         \* the forest parse_html_string returned (<<>> if it threw)
    error,          \* the error it threw, or NoError
    pc,             \* "ready": input not parsed yet; "parsed"; "failed"
    source_forest,  \* the forest whose serialization input is (round > 0)
    round,          \* how many times a forest was serialized and parsed again
    frames          \* the calls of parse_html_optimized under way, the
                    \* top-level call first (BuilderSpec)

parserVars == <<input, forest, error, pc, source_forest, round, frames>>

VARIABLES
    template,       \* the text handed to parse_html_with_params
    parameters,     \* the params map handed to it
    substituted,    \* the string it returned (result, while it loops)
    subst_pc,       \* "idle", "ready": not called yet; "loop"; "done": it returned
    subst_keys,     \* the keys of params the for loop has yet to take
    subst_pos       \* pos of the while loop

substVars == <<template, parameters, substituted, subst_pc, subst_keys, subst_pos>>

VARIABLES
    heap,           \* the elements made so far, by position
    orig,           \* the element last copied (0: none yet)
    cpy,            \* the copy made of it
    snap_orig,      \* the tree of orig when it was last copied or changed
    snap_copy,      \* the tree of cpy when it was made or last changed
    last            \* the substitution just made on the heap, if any

treeVars == <<heap, orig, cpy, snap_orig, snap_copy, last>>

VARIABLES
    attr_text,      \* the attribute text handed to parse_attributes
    attr_result,    \* the map it returned
    attr_pc         \* "idle", "ready": not called yet; "done": it returned

attrVars == <<attr_text, attr_result, attr_pc>>

vars == <<parserVars, substVars, treeVars, attrVars>>

(***************************************************************************)
(* Inputs of the parser: the documents of the examples, and every          *)
(* concatenation of at most MaxPieces pieces of markup.                    *)
(***************************************************************************)

MaxPieces == 3

MaxRounds == 2

Pieces ==
    <<S("<div>"), S("</div>"), S("<p>"), S("</p>"), S("Hi"), S("<br/>"),
      S("<br />"), S("<customtag/>"), S("</>"), S("<img src=\"a\"/>"),
      S("<DIV class=\"a b\" disabled>")>>

Examples ==
    {S("<div><p>Hi</p></div>"), S("<div><p>Hi</div>"), S("<div><p>Hi"),
     S("<div><p>Hi</p>\n</div>"), S("<p>Hi</div >"), S("<div>Hi</div >")}

PieceSeqs == UNION {[1..n -> 1..Len(Pieces)] : n \in 0..MaxPieces}

Inputs == Examples \cup {Concat([i \in DOMAIN ps |-> Pieces[ps[i]]]) : ps \in PieceSeqs}

(***************************************************************************)
(* Parsing and serializing                                                 *)
(***************************************************************************)

ParserInit ==
    /\ input \in Inputs
    /\ forest = <<>>
    /\ error = NoError
    /\ pc = "ready"
    /\ source_forest = <<>>
    /\ round = 0
    /\ frames = <<>>

\* No parser call is under way.
ParserIdle ==
    /\ input = <<>>
    /\ forest = <<>>
    /\ error = NoError
    /\ pc = "idle"
    /\ source_forest = <<>>
    /\ round = 0
    /\ frames = <<>>

\* No substitution call is under way.
SubstIdle ==
    /\ template = <<>>
    /\ parameters = EmptyMap
    /\ substituted = <<>>
    /\ subst_pc = "idle"
    /\ subst_keys = <<>>
    /\ subst_pos = 0

\* No attribute text is being parsed.
AttrIdle ==
    /\ attr_text = <<>>
    /\ attr_result = EmptyMap
    /\ attr_pc = "idle"

NoOp == [op |-> "none", target |-> 0, params |-> EmptyMap]

\* No element exists.
TreeIdle ==
    /\ heap = <<>>
    /\ orig = 0
    /\ cpy = 0
    /\ snap_orig = <<>>
    /\ snap_copy = <<>>
    /\ last = NoOp

\* Parse(input): parse_html_string, which returns a forest or throws.
Parse ==
    /\ pc = "ready"
    /\ LET r == parse_html_string(input)
       IN  /\ forest' = r.result
           /\ error' = r.err
           /\ pc' = IF r.err = NoError THEN "parsed" ELSE "failed"
    /\ UNCHANGED <<input, source_forest, round, frames>>
    /\ UNCHANGED <<substVars, treeVars, attrVars>>

\* Serialize the forest just parsed and hand the text to the parser again.
Serialize ==
    /\ pc = "parsed"
    /\ round < MaxRounds
    /\ input' = ForestToString(forest)
    /\ source_forest' = forest
    /\ round' = round + 1
    /\ pc' = "ready"
    /\ UNCHANGED <<forest, error, frames>>
    /\ UNCHANGED <<substVars, treeVars, attrVars>>

Init == ParserInit /\ SubstIdle /\ TreeIdle /\ AttrIdle

Next == Parse \/ Serialize

Spec == Init /\ [][Next]_vars

(***************************************************************************)
(* The parser on documents with comments, doctype declarations and tags    *)
(* that do not end: the same calls, on other inputs.                       *)
(***************************************************************************)

MarkupPieces ==
    <<S("<!--"), S("-->"), S(" x "), S("<div>"), S("</div>"), S("<p>"),
      S("<p"), S("done"), S("<!DOCTYPE html>")>>

\* What is written before a comment, inside it and after it.
BeforeComment == {<<>>, S("<div>"), S("done")}

InsideComment == {S(" x "), S("<p>"), S("<!DOCTYPE html>"), S("</div>"), S("<p")}

AfterComment == {<<>>, S("done"), S("</div>"), S("<p>"), S("<!----><p>")}

Commented(a, c, b) == a \o S("<!--") \o c \o S("-->") \o b

CommentCases ==
    {Commented(a, c, b) : a \in BeforeComment, c \in InsideComment,
                          b \in AfterComment}

MarkupExamples ==
    {S("<!-- x -->done"), S("<!-- x"), S("<!--->"), S("<div><p>Hi"),
     S("<div><p>done<p"), S("<div></div><p"), S("<DIV>\n<P"),
     S("<div></div><div><p> x "), S("<p>done</p><p><div>"),
     S("<!doctype html>"), S("<!DocType html>"), S("<!DOCTYPE html PUBLIC>"), S("<!DOCTYPE html><div></div>"),
     S("<div><!DOCTYPE html></div>"), S("<!DOCTYPE>"), S("<!DOCTYPE html"),
     S("<!<!-- x -->-- x -->"), S("done<!-<!-- x -->-<p>-->done")}

MarkupPieceSeqs == UNION {[1..n -> 1..Len(MarkupPieces)] : n \in 0..MaxPieces}

MarkupInputs ==
    MarkupExamples \cup CommentCases
    \cup {Concat([i \in DOMAIN ps |-> MarkupPieces[ps[i]]]) : ps \in MarkupPieceSeqs}

MarkupInit ==
    /\ input \in MarkupInputs
    /\ forest = <<>>
    /\ error = NoError
    /\ pc = "ready"
    /\ source_forest = <<>>
    /\ round = 0
    /\ frames = <<>>
    /\ SubstIdle
    /\ TreeIdle
    /\ AttrIdle

MarkupSpec == MarkupInit /\ [][Next]_vars

(***************************************************************************)
(* parse_html_optimized one loop iteration at a time: input is the html    *)
(* handed to solve_recursive, frames the calls under way.  A frame holds   *)
(* the locals of a call: start, pos and result, and, while a recursive     *)
(* call runs, tag_start, tag_name and parsed_attributes of the opening tag.*)
(***************************************************************************)

MaxTagPieces == 2

BuilderPieces ==
    <<S("<div>"), S("</div>"), S("<p>"), S("</p>"), S("Hi"), S("<br>"),
      S("<>"), S("</>"), S("<p"), S("<DIV class=\"a b\" disabled>")>>

EmptyTagExamples == {S("<>"), S("<div><>Hi</div>"), S("<><p>")}

BuilderPieceSeqs ==
    UNION {[1..n -> 1..Len(BuilderPieces)] : n \in 0..MaxTagPieces}

\* The documents of the examples, and every text made of at most
\* MaxTagPieces pieces of markup.
BuilderInputs ==
    Examples \cup MarkupExamples \cup EmptyTagExamples
    \cup {Concat([i \in DOMAIN ps |-> BuilderPieces[ps[i]]]) : ps \in BuilderPieceSeqs}

Frame(start) ==
    [start |-> start, pos |-> start, result |-> <<>>, tag_start |-> 0,
     tag_name |-> <<>>, parsed_attributes |-> EmptyMap]

\* solve_recursive: parse_html_optimized(html, 0, html.length())
BuilderInit ==
    /\ input \in BuilderInputs
    /\ forest = <<>>
    /\ error = NoError
    /\ pc = "building"
    /\ source_forest = <<>>
    /\ round = 0
    /\ frames = <<Frame(0)>>
    /\ SubstIdle
    /\ TreeIdle
    /\ AttrIdle

\* The call that is running.
Top == frames[Len(frames)]

End == Len(input)

\* result after "Handle text content before the tag".
ResultAtTag(tag_start) ==
    IF tag_start > Top.pos
    THEN WithText(Top.result, SubStr(input, Top.pos, tag_start - Top.pos))
    ELSE Top.result

\* throw std::runtime_error: no call is left, Parse fails.
Throw(err) ==
    /\ pc' = "failed"
    /\ error' = err
    /\ forest' = <<>>
    /\ frames' = <<>>

\* The running call goes on with its loop at pos, with result.
Continue(pos, result) ==
    /\ frames' = [frames EXCEPT ![Len(frames)].pos = pos,
                                ![Len(frames)].result = result]
    /\ UNCHANGED <<forest, error, pc>>

\* The caller goes on with its loop at pos, the element of its opening tag
\* pushed with the children returned.
ContinueCaller(caller, children, pos) ==
    /\ frames' = Append(SubSeq(frames, 1, Len(frames) - 2),
                        [caller EXCEPT
                            !.pos = pos,
                            !.result = Append(caller.result,
                                OpeningElement(caller.tag_name,
                                               caller.parsed_attributes, children))])
    /\ UNCHANGED <<forest, error, pc>>

\* Lines 429-457 in the caller: the closing tag at closing_pos, if any, is
\* checked and passed.
BackInCaller(caller, children, closing_pos, closing_tag_end) ==
    IF closing_pos < End
    THEN IF closing_tag_end = npos THEN Throw(UnterminatedTag)
         ELSE IF ClosingTagMismatch(
                   SubStr(input, closing_pos + 1, closing_tag_end - closing_pos - 1),
                   caller.tag_name)
         THEN Throw(MismatchedClosingTag(caller.tag_name,
                      trim(SubStrFrom(
                        SubStr(input, closing_pos + 1,
                               closing_tag_end - closing_pos - 1), 1))))
         ELSE ContinueCaller(caller, children, closing_tag_end + 1)
    ELSE ContinueCaller(caller, children, End)

\* return {result, pos}: to solve_recursive, which keeps the forest, or to
\* the call that made this one.
Return(result, pos) ==
    IF Len(frames) = 1
    THEN /\ pc' = "parsed"
         /\ forest' = result
         /\ frames' = <<>>
         /\ UNCHANGED error
    ELSE \E closing_tag_end \in {Find(input, S(">"), pos)} :
            BackInCaller(frames[Len(frames) - 1], result, pos, closing_tag_end)

\* while (pos < end) is false: return {result, end}.
ExitLoop ==
    /\ pc = "building"
    /\ Top.pos >= End
    /\ Return(Top.result, End)
    /\ UNCHANGED <<input, source_forest, round>>
    /\ UNCHANGED <<substVars, treeVars, attrVars>>

\* Lines 350-362: no tag is left, the remaining text is handled; break.
RemainingText(tag_start) ==
    /\ tag_start = npos \/ tag_start >= End
    /\ Return(WithText(Top.result, SubStr(input, Top.pos, End - Top.pos)), End)
    /\ UNCHANGED <<input, source_forest, round>>
    /\ UNCHANGED <<substVars, treeVars, attrVars>>

\* Lines 376-381: the tag does not end before end.
ThrowUnterminated(tag_end) ==
    /\ tag_end = npos \/ tag_end >= End
    /\ Throw(UnterminatedTag)
    /\ UNCHANGED <<input, source_forest, round>>
    /\ UNCHANGED <<substVars, treeVars, attrVars>>

\* pos stays at the < of the empty tag.
AtEmptyTag(tag_start, tag_end) == tag_start

\* pos = tag_end + 1 after an empty tag.
PastEmptyTag(tag_start, tag_end) == tag_end + 1

\* Lines 386-391: <> is skipped.
SkipEmptyTag(tag_start, tag_end, tag_content) ==
    /\ tag_content = <<>>
    /\ Continue(PastEmptyTag(tag_start, tag_end), ResultAtTag(tag_start))
    /\ UNCHANGED <<input, source_forest, round>>
    /\ UNCHANGED <<substVars, treeVars, attrVars>>

\* Lines 393-398: a closing tag, return {result, tag_start}.
ReturnAtClosingTag(tag_start, tag_content) ==
    /\ tag_content # <<>>
    /\ tag_content[1] = "/"
    /\ Return(ResultAtTag(tag_start), tag_start)
    /\ UNCHANGED <<input, source_forest, round>>
    /\ UNCHANGED <<substVars, treeVars, attrVars>>

\* Lines 406-413: a void tag is pushed, pos = tag_end + 1.
PushVoid(tag_start, tag_end, tag_name, parsed_attributes) ==
    /\ is_self_closing_tag(tag_name)
    /\ Continue(tag_end + 1,
                Append(ResultAtTag(tag_start),
                       self_closing_element(tag_name, parsed_attributes)))
    /\ UNCHANGED <<input, source_forest, round>>
    /\ UNCHANGED <<substVars, treeVars, attrVars>>

\* Lines 416-419: an opening tag, parse_html_optimized(html, tag_end + 1, end).
CallForChildren(tag_start, tag_end, tag_name, parsed_attributes) ==
    /\ ~is_self_closing_tag(tag_name)
    /\ frames' =
           Append([frames EXCEPT
                      ![Len(frames)].result = ResultAtTag(tag_start),
                      ![Len(frames)].tag_start = tag_start,
                      ![Len(frames)].tag_name = tag_name,
                      ![Len(frames)].parsed_attributes = parsed_attributes],
                  Frame(tag_end + 1))
    /\ UNCHANGED <<forest, error, pc>>
    /\ UNCHANGED <<input, source_forest, round>>
    /\ UNCHANGED <<substVars, treeVars, attrVars>>

\* Lines 400-404: the tag content is split in name and attributes.
AtName(tag_start, tag_end, tag_content) ==
    /\ tag_content # <<>>
    /\ tag_content[1] # "/"
    /\ \E tag_name \in {trim(extract_tag_and_attributes(tag_content)[1])} :
       \E parsed_attributes \in
              {parse_attributes(trim(extract_tag_and_attributes(tag_content)[2]))} :
          \/ PushVoid(tag_start, tag_end, tag_name, parsed_attributes)
          \/ CallForChildren(tag_start, tag_end, tag_name, parsed_attributes)

\* Lines 383-384: the tag ends at tag_end, before end.
AtContent(tag_start, tag_end) ==
    /\ tag_end # npos
    /\ tag_end < End
    /\ \E tag_content \in {SubStr(input, tag_start + 1, tag_end - tag_start - 1)} :
          \/ SkipEmptyTag(tag_start, tag_end, tag_content)
          \/ ReturnAtClosingTag(tag_start, tag_content)
          \/ AtName(tag_start, tag_end, tag_content)

\* Lines 376-377: a tag starts at tag_start, before end.
AtLt(tag_start) ==
    /\ tag_start # npos
    /\ tag_start < End
    /\ \E tag_end \in {Find(input, S(">"), tag_start)} :
          \/ ThrowUnterminated(tag_end)
          \/ AtContent(tag_start, tag_end)

\* One iteration of while (pos < end), from html.find('<', pos).
Iterate ==
    /\ pc = "building"
    /\ Top.pos < End
    /\ \E tag_start \in {Find(input, S("<"), Top.pos)} :
          \/ RemainingText(tag_start)
          \/ AtLt(tag_start)

BuilderNext == ExitLoop \/ Iterate

\* The builder runs on until it returns or throws.
BuilderSpec == BuilderInit /\ [][BuilderNext]_vars /\ WF_vars(BuilderNext)

(***************************************************************************)
(* The parser on runs of text and blanks between tags                      *)
(***************************************************************************)

MaxRunLen == 2

RunChars == <<" ", "\t", "\r", "\n", "x">>

\* The runs of text: up to MaxRunLen blanks and letters.
Runs == UNION {[1..n -> {RunChars[i] : i \in DOMAIN RunChars}] : n \in 0..MaxRunLen}

\* A run between two opening tags, between two closing tags, after the last
\* tag at the top level, after the last tag under open elements, and before
\* the first tag.
BetweenOpenings(run) == S("<div>") \o run \o S("<p>Hi</p></div>")

BetweenClosings(run) == S("<div><p>Hi</p>") \o run \o S("</div>")

AfterLastTag(run) == S("<div></div>") \o run

AfterLastOpening(run) == S("<div><p>") \o run

BeforeFirstTag(run) == run \o S("<br>")

RunInputs ==
    UNION {{BetweenOpenings(run), BetweenClosings(run), AfterLastTag(run),
            AfterLastOpening(run), BeforeFirstTag(run)} : run \in Runs}

RunInit ==
    /\ input \in RunInputs
    /\ forest = <<>>
    /\ error = NoError
    /\ pc = "ready"
    /\ source_forest = <<>>
    /\ round = 0
    /\ frames = <<>>
    /\ SubstIdle
    /\ TreeIdle
    /\ AttrIdle

RunSpec == RunInit /\ [][Next]_vars

(***************************************************************************)
(* Substitute(text, params): the texts are the examples and every          *)
(* concatenation of at most MaxTextPieces pieces; the maps give each key   *)
(* of SubstKeys a value of SubstValues, or leave it out.                   *)
(***************************************************************************)

MaxTextPieces == 3

SubstPieces == <<S("{{a}}"), S("{{b}}"), S("{{"), S("}}"), S("x"), S("a")>>

SubstKeys == {S("a"), S("b")}

SubstValues == {<<>>, S("x"), S("{{a}}"), S("{{b}}")}

TextSeqs == UNION {[1..n -> 1..Len(SubstPieces)] : n \in 0..MaxTextPieces}

SubstTexts == {Concat([i \in DOMAIN ps |-> SubstPieces[ps[i]]]) : ps \in TextSeqs}

SubstParams == UNION {[ks -> SubstValues] : ks \in SUBSET SubstKeys}

NameWorld == [k \in {S("name")} |-> S("World")]

SubstExamples ==
    {<<S("Hello {{name}}!"), NameWorld>>, <<S("{{missing}}"), EmptyMap>>,
     <<S("{{missing}}"), NameWorld>>}

SubstInit ==
    /\ ParserIdle
    /\ TreeIdle
    /\ AttrIdle
    /\ \E tp \in SubstExamples \cup (SubstTexts \X SubstParams) :
          /\ template = tp[1]
          /\ parameters = tp[2]
    /\ substituted = <<>>
    /\ subst_pc = "ready"
    /\ subst_keys = <<>>
    /\ subst_pos = 0

\* Substitute(text, params): parse_html_with_params.
Substitute ==
    /\ subst_pc = "ready"
    /\ substituted' = parse_html_with_params(template, parameters)
    /\ subst_pc' = "done"
    /\ UNCHANGED <<template, parameters, subst_keys, subst_pos>>
    /\ UNCHANGED <<parserVars, treeVars, attrVars>>

SubstNext == Substitute

SubstSpec == SubstInit /\ [][SubstNext]_vars

(***************************************************************************)
(* parse_html_with_params one iteration at a time                          *)
(***************************************************************************)

\* A text whose placeholder stands around another one.
JoinExamples ==
    {<<S("{{{{a}}a}}"), [k \in {S("a")} |-> <<>>]>>,
     <<S("{{a{{a}}}}"), [k \in {S("a")} |-> <<>>]>>}

\* std::string result = text; the for loop is at the first param, pos = 0.
LoopInit ==
    /\ ParserIdle
    /\ TreeIdle
    /\ AttrIdle
    /\ \E tp \in SubstExamples \cup JoinExamples \cup (SubstTexts \X SubstParams) :
          /\ template = tp[1]
          /\ parameters = tp[2]
          /\ substituted = tp[1]
          /\ subst_keys = SortedKeys(DOMAIN tp[2])
    /\ subst_pos = 0
    /\ subst_pc = "loop"

\* pos = found without the length of the value added.
SamePos(found, value) == found

\* pos += param.second.length(), pos being where the placeholder was found.
NextPos(found, value) == found + Len(value)

\* The body of the while loop, when find returns a position.
ReplaceOccurrence ==
    /\ subst_pc = "loop"
    /\ subst_keys # <<>>
    /\ LET placeholder == Placeholder(Head(subst_keys))
           value == parameters[Head(subst_keys)]
           found == Find(substituted, placeholder, subst_pos)
       IN  /\ found # npos
           /\ substituted' = Replace(substituted, found, Len(placeholder), value)
           /\ subst_pos' = NextPos(found, value)
    /\ UNCHANGED <<template, parameters, subst_pc, subst_keys>>
    /\ UNCHANGED <<parserVars, treeVars, attrVars>>

\* find returns npos: the while loop ends and the for loop takes the next
\* param, with pos = 0.
NextParam ==
    /\ subst_pc = "loop"
    /\ subst_keys # <<>>
    /\ Find(substituted, Placeholder(Head(subst_keys)), subst_pos) = npos
    /\ subst_keys' = Tail(subst_keys)
    /\ subst_pos' = 0
    /\ UNCHANGED <<template, parameters, substituted, subst_pc>>
    /\ UNCHANGED <<parserVars, treeVars, attrVars>>

\* return result, after the last param.
ReturnResult ==
    /\ subst_pc = "loop"
    /\ subst_keys = <<>>
    /\ subst_pc' = "done"
    /\ UNCHANGED <<template, parameters, substituted, subst_keys, subst_pos>>
    /\ UNCHANGED <<parserVars, treeVars, attrVars>>

LoopNext == ReplaceOccurrence \/ NextParam \/ ReturnResult

\* The call runs on until it returns: no step of it waits for anything.
LoopSpec == LoopInit /\ [][LoopNext]_vars /\ WF_vars(LoopNext)

(***************************************************************************)
(* Attribute parsing: parse_attributes on attribute texts made of at most  *)
(* MaxAttrItems attributes separated by single spaces, and on every        *)
(* concatenation of at most MaxAttrPieces pieces of attribute text.        *)
(***************************************************************************)

MaxAttrItems == 3

MaxAttrPieces == 4

\* An attribute as it is written: a name, and a quoted value or none.
Quoted(name, value) == [name |-> name, quoted |-> TRUE, value |-> value]

Bare(name) == [name |-> name, quoted |-> FALSE, value |-> <<>>]

AttrItems ==
    <<Quoted(S("class"), S("a b")), Bare(S("disabled")), Quoted(S("id"), S("x")),
      Bare(S("hidden")), Quoted(S("title"), S(" =\t/ ")), Quoted(S("alt"), <<>>)>>

ItemSeqs == UNION {[1..n -> 1..Len(AttrItems)] : n \in 0..MaxAttrItems}

ItemText(item) ==
    IF item.quoted THEN item.name \o S("=\"") \o item.value \o S("\"")
    ELSE item.name

\* The items of a sequence as attribute text, a space between two items.
RECURSIVE ItemsText(_)
ItemsText(is) ==
    IF is = <<>> THEN <<>>
    ELSE IF Len(is) = 1 THEN ItemText(AttrItems[is[1]])
    ELSE ItemText(AttrItems[is[1]]) \o S(" ") \o ItemsText(Tail(is))

AttrPieces == <<S("a"), S("="), S("\"x\""), S(" "), S("/"), S("b"), S("\"")>>

AttrPieceSeqs == UNION {[1..n -> 1..Len(AttrPieces)] : n \in 0..MaxAttrPieces}

AttrExamples ==
    {S("class=\"a b\" disabled"), S("a= \"x\""), S("a =\"x\""), S("a = \"x\" b"),
     S("src=\"a\"/"), S("src=\"a\" /"), S("disabled/"), S("a=\t\"x\" b"), S("a=\t\"x\""), S("a=  \"x\""),
     S("a=  \"x\" b"), S("a=\"x\" b")}

AttrInputs ==
    AttrExamples
    \cup {ItemsText(is) : is \in ItemSeqs}
    \cup {Concat([i \in DOMAIN ps |-> AttrPieces[ps[i]]]) : ps \in AttrPieceSeqs}

AttrInit ==
    /\ ParserIdle
    /\ SubstIdle
    /\ TreeIdle
    /\ attr_text \in AttrInputs
    /\ attr_result = EmptyMap
    /\ attr_pc = "ready"

\* parse_attributes(attr_text)
ParseAttributes ==
    /\ attr_pc = "ready"
    /\ attr_result' = parse_attributes(attr_text)
    /\ attr_pc' = "done"
    /\ UNCHANGED attr_text
    /\ UNCHANGED <<parserVars, substVars, treeVars>>

AttrNext == ParseAttributes

AttrSpec == AttrInit /\ [][AttrNext]_vars

(***************************************************************************)
(* Building, copying and parameterizing trees, as main() of app.cpp does:  *)
(* elements are made, added as children, copied, and their placeholders    *)
(* replaced.  At most MaxNodes elements are made.                          *)
(***************************************************************************)

MaxNodes == 4

\* The elements a caller makes.
Templates ==
    {element(S("a"), S("{{a}}"), MapPut(EmptyMap, S("href"), S("{{a}}"))),
     self_closing_element(S("img"),
         MapPut(MapPut(EmptyMap, S("src"), S("{{a}}")), S("alt"), <<>>))}

\* The text handed to set_text_content together with params.
ParamTexts == {S("{{a}}")}

NewTexts == {S("v")}

TreeParams == {[k \in {S("a")} |-> S("v")]}

Ids == 1..Len(heap)

\* A change of element n is made through the copy when n is reached from
\* the copy, through the original when n is reached from the original.
\* The snapshot of a tree is kept across a change made through the other
\* tree, and taken again after any other change.
Resnap(h, n) ==
    /\ snap_copy' = IF cpy # 0 /\ n \notin Reach(heap, orig) THEN Deep(h, cpy)
                    ELSE snap_copy
    /\ snap_orig' = IF cpy # 0 /\ n \notin Reach(heap, cpy) THEN Deep(h, orig)
                    ELSE snap_orig

TreeInit ==
    /\ ParserIdle
    /\ SubstIdle
    /\ TreeIdle
    /\ AttrIdle

\* element root("body"): the first element, the root of the tree.
NewElement(e) ==
    /\ heap = <<>>
    /\ heap' = <<e>>
    /\ last' = NoOp
    /\ UNCHANGED <<orig, cpy, snap_orig, snap_copy>>
    /\ UNCHANGED <<parserVars, substVars, attrVars>>

\* parent.add_child(make_shared<element>(...)): a new element, added.
AddChild(parent, e) ==
    /\ Len(heap) < MaxNodes
    /\ heap' = add_child(Append(heap, e), parent, Len(heap) + 1)
    /\ Resnap(heap', parent)
    /\ last' = NoOp
    /\ UNCHANGED <<orig, cpy>>
    /\ UNCHANGED <<parserVars, substVars, attrVars>>

\* n.set_text_content(text)
SetTextContent(n, text_content) ==
    /\ heap' = set_text_content(heap, n, text_content)
    /\ Resnap(heap', n)
    /\ last' = NoOp
    /\ UNCHANGED <<orig, cpy>>
    /\ UNCHANGED <<parserVars, substVars, attrVars>>

\* n.set_text_content(text, params)
SetTextContentWithParams(n, text_content, params) ==
    /\ heap' = set_text_content_with_params(heap, n, text_content, params)
    /\ Resnap(heap', n)
    /\ last' = NoOp
    /\ UNCHANGED <<orig, cpy>>
    /\ UNCHANGED <<parserVars, substVars, attrVars>>

\* element b = a.copy()
Copy(a) ==
    /\ Len(heap) + Cardinality(Reach(heap, a)) <= MaxNodes
    /\ heap' = CopyNode(heap, a).heap
    /\ orig' = a
    /\ cpy' = CopyNode(heap, a).id
    /\ snap_orig' = Deep(heap', a)
    /\ snap_copy' = Deep(heap', cpy')
    /\ last' = NoOp
    /\ UNCHANGED <<parserVars, substVars, attrVars>>

\* n.set_text_params_recursive(params)
SetTextParamsRecursive(n, params) ==
    /\ heap' = set_text_params_recursive(heap, n, params)
    /\ Resnap(heap', n)
    /\ last' = [op |-> "set_text_params_recursive", target |-> n,
                params |-> params]
    /\ UNCHANGED <<orig, cpy>>
    /\ UNCHANGED <<parserVars, substVars, attrVars>>

TreeNext ==
    \/ \E e \in Templates : NewElement(e)
    \/ \E parent \in Ids, e \in Templates : AddChild(parent, e)
    \/ \E n \in Ids, t \in NewTexts : SetTextContent(n, t)
    \/ \E a \in Ids : Copy(a)
    \/ \E n \in Ids, params \in TreeParams : SetTextParamsRecursive(n, params)

TreeSpec == TreeInit /\ [][TreeNext]_vars

(***************************************************************************)
(* Content mutations of elements of every kind: a first element of any     *)
(* kind is made, and elements are added and texts set on any element.      *)
(***************************************************************************)

\* The elements without content a caller makes.
LeafTemplates ==
    {self_closing_element(S("br"), EmptyMap), doctype_element(S("html"))}

LeafInit ==
    /\ ParserIdle
    /\ SubstIdle
    /\ TreeIdle
    /\ AttrIdle

LeafNext ==
    \/ \E e \in Templates \cup LeafTemplates : NewElement(e)
    \/ \E parent \in Ids, e \in Templates \cup LeafTemplates : AddChild(parent, e)
    \/ \E n \in Ids, t \in NewTexts : SetTextContent(n, t)
    \/ \E n \in Ids, t \in ParamTexts, params \in TreeParams :
          SetTextContentWithParams(n, t, params)

LeafSpec == LeafInit /\ [][LeafNext]_vars

(***************************************************************************)
(* Vocabulary of the properties                                            *)
(***************************************************************************)

Done == pc \in {"parsed", "failed"}

IsPrefix(pre, s) == Len(pre) <= Len(s) /\ SubSeq(s, 1, Len(pre)) = pre

\* Every node of a forest, at any depth.
RECURSIVE NodesOf(_)
NodesOf(f) ==
    UNION {{f[i]} \cup NodesOf(f[i].children) : i \in DOMAIN f}

\* Tag nesting and attributes of a forest, without its texts.
RECURSIVE Shape(_)
Shape(f) ==
    [i \in DOMAIN f |->
        [tag |-> f[i].tag, attributes |-> f[i].attributes,
         children |-> Shape(f[i].children)]]

\* A Regular node with the given tag and children, no attributes, no text.
Regular(tag, children) == [element(tag, <<>>, EmptyMap) EXCEPT !.children = children]

IsRegular(n, tag) == n.kind = "element" /\ n.tag = tag

OpenTag(name) == S("<") \o name \o S(">")

CloseTag(content) == S("<") \o content \o S(">")

TagNames == {S("div"), S("p")}

Texts == {<<>>, S("Hi")}

\* Well-formed content an element can have before its closing tag.
Bodies == {<<>>, S("Hi"), S("<br />"), S("<p></p>")}

\* The contents of the closing tags of the inputs: "/" and a name.
ClosingContents == {S("/div"), S("/p"), S("/div "), S("/")}

ClosingName(content) == trim(SubStrFrom(content, 1))

DivPHi == S("<div><p>Hi</p></div>")

(***************************************************************************)
(* C1 as stated: Parse("<div><p>Hi</p></div>") yields one root, Regular    *)
(* div, with exactly one child, Regular p, and the text content of p is    *)
(* "Hi".                                                                   *)
(***************************************************************************)
C1_TextIsContentOfElement ==
    (Done /\ round = 0 /\ input = DivPHi) =>
        /\ pc = "parsed"
        /\ Len(forest) = 1
        /\ IsRegular(forest[1], S("div"))
        /\ Len(forest[1].children) = 1
        /\ IsRegular(forest[1].children[1], S("p"))
        /\ forest[1].children[1].text_content = S("Hi")

(***************************************************************************)
(* C1 amended: text written inside an element becomes a child text node    *)
(* of that element (tag "text", no attributes, no children, the text as    *)
(* its text content) and the element's own text content stays empty.       *)
(* Parse("<div><p>Hi</p></div>") yields one root div, whose only child is  *)
(* p, whose text content is empty and whose only child is the text node    *)
(* "Hi".  In every parsed forest, only text nodes and the doctype node     *)
(* carry text.                                                             *)
(***************************************************************************)
C1_TextIsChildTextNode ==
    /\ (Done /\ round = 0 /\ input = DivPHi) =>
          /\ pc = "parsed"
          /\ forest = <<Regular(S("div"),
                          <<Regular(S("p"), <<TextElement(S("Hi"))>>)>>)>>
    /\ pc = "parsed" =>
          \A n \in NodesOf(forest) :
              n.text_content # <<>> =>
                  \/ n.kind = "doctype_element"
                  \/ n = element(S("text"), n.text_content, EmptyMap)

C1_Witness == pc = "parsed" /\ round = 0 /\ input = DivPHi

(***************************************************************************)
(* C2 as stated: parsing the serialization of a parsed forest gives the    *)
(* same tag nesting and the same attributes on every node, however often   *)
(* the round trip is repeated.                                             *)
(***************************************************************************)
C2_StructuralRoundTrip ==
    (Done /\ round >= 1) =>
        /\ pc = "parsed"
        /\ Shape(forest) = Shape(source_forest)

(***************************************************************************)
(* C3 as stated: Parse("<div><p>Hi</div>") succeeds and gives div          *)
(* containing p containing the text "Hi"; an inner element whose closing   *)
(* tag is missing when its parent's closing tag is reached is closed       *)
(* implicitly.                                                             *)
(***************************************************************************)
C3_AutoCloseUnderParent ==
    \A a \in TagNames, b \in TagNames, t \in Texts :
        (Done /\ round = 0 /\ a # b
              /\ input = OpenTag(a) \o OpenTag(b) \o t \o CloseTag(S("/") \o a)) =>
            /\ error = NoError
            /\ forest = <<Regular(a, <<Regular(b, WithText(<<>>, t))>>)>>

(***************************************************************************)
(* C3 amended: Parse("<div><p>Hi</div>") fails with MismatchedClosingTag   *)
(* (expected p, found div) and returns no tree.  An inner element whose    *)
(* closing tag is missing is closed implicitly only when the end of the    *)
(* input is reached: Parse("<div><p>Hi") succeeds and gives div            *)
(* containing p containing the text node "Hi".                             *)
(***************************************************************************)
C3_AutoCloseOnlyAtEnd ==
    \A a \in TagNames, b \in TagNames, t \in Texts :
        /\ (Done /\ round = 0 /\ a # b
                 /\ input = OpenTag(a) \o OpenTag(b) \o t \o CloseTag(S("/") \o a)) =>
              /\ pc = "failed"
              /\ error = MismatchedClosingTag(b, a)
              /\ forest = <<>>
        /\ (Done /\ round = 0 /\ input = OpenTag(a) \o OpenTag(b) \o t) =>
              /\ pc = "parsed"
              /\ error = NoError
              /\ forest = <<Regular(a, <<Regular(b, WithText(<<>>, t))>>)>>

C3_Witness ==
    /\ pc = "failed"
    /\ input = S("<div><p>Hi</div>")
    /\ error = MismatchedClosingTag(S("p"), S("div"))

(***************************************************************************)
(* C4 as stated: whenever the call for an opening tag N stops at a closing *)
(* tag (any tag whose content starts with "/") whose name differs from N,  *)
(* Parse fails with MismatchedClosingTag(N, that name) and returns no      *)
(* tree.                                                                   *)
(***************************************************************************)
C4_AnyClosingTagIsVerified ==
    \A n \in TagNames, body \in Bodies, c \in ClosingContents :
        (Done /\ round = 0 /\ ClosingName(c) # n
              /\ IsPrefix(OpenTag(n) \o body \o CloseTag(c), input)) =>
            /\ pc = "failed"
            /\ error = MismatchedClosingTag(n, ClosingName(c))
            /\ forest = <<>>

(***************************************************************************)
(* C4 amended: whenever the call for an opening tag N stops at a closing   *)
(* tag whose content is longer than the lone "/" and whose trimmed name    *)
(* differs from N, Parse fails with MismatchedClosingTag(N, that name) and *)
(* returns no tree; the bare closing tag "</>" closes the open element,    *)
(* whatever its name, without an error.                                    *)
(***************************************************************************)
C4_NamedClosingTagIsVerified ==
    \A n \in TagNames, body \in Bodies, c \in ClosingContents :
        /\ (Done /\ round = 0 /\ ClosingName(c) # n /\ Len(c) > 1
                 /\ IsPrefix(OpenTag(n) \o body \o CloseTag(c), input)) =>
              /\ pc = "failed"
              /\ error = MismatchedClosingTag(n, ClosingName(c))
              /\ forest = <<>>
        /\ (Done /\ round = 0 /\ input = OpenTag(n) \o body \o CloseTag(S("/"))) =>
              /\ pc = "parsed"
              /\ Len(forest) = 1
              /\ IsRegular(forest[1], n)
              /\ forest[1].children = parse_html_string(body).result

C4_Witness ==
    /\ pc = "failed"
    /\ input = S("<div>Hi</p>")
    /\ error = MismatchedClosingTag(S("div"), S("p"))
    /\ forest = <<>>

(***************************************************************************)
(* C5 as stated: a tag that is not in the void set and is written with a   *)
(* trailing "/>" gives a Void node with the tag name without the slash,    *)
(* at the current level, and nothing after it becomes its child.           *)
(***************************************************************************)
C5_ExplicitSelfClosing ==
    (pc = "parsed" /\ round = 0 /\ IsPrefix(S("<customtag/>"), input)) =>
        /\ Len(forest) >= 1
        /\ forest[1] = self_closing_element(S("customtag"), EmptyMap)

(***************************************************************************)
(* C6 as stated: a tag of the void set, with or without attributes and     *)
(* with or without a trailing "/", gives one Void node with the parsed     *)
(* attributes, and the markup after it is parsed as its siblings.          *)
(***************************************************************************)
VoidForms ==
    {<<S("<br/>"), self_closing_element(S("br"), EmptyMap)>>,
     <<S("<br />"), self_closing_element(S("br"), EmptyMap)>>,
     <<S("<img src=\"a\"/>"),
       self_closing_element(S("img"), MapPut(EmptyMap, S("src"), S("a")))>>}

C6_AllowListVoid ==
    \A v \in VoidForms :
        (pc = "parsed" /\ round = 0 /\ IsPrefix(v[1], input)) =>
            forest = <<v[2]>> \o parse_html_string(SubStrFrom(input, Len(v[1]))).result

(***************************************************************************)
(* Copying and recursive substitution on trees (TreeSpec)                  *)
(***************************************************************************)

\* C7: after b = a.copy() the trees of a and b have no element in common at
\* any depth, and whatever is then done through one of them (set text, add
\* child, recursive substitution, on it or on a descendant) leaves the
\* tag, text, attributes and children of the other and of all its
\* descendants, hence its serialization, as they were.
C7_CopyIndependence ==
    cpy # 0 =>
        /\ Reach(heap, orig) \cap Reach(heap, cpy) = {}
        /\ Deep(heap, orig) = snap_orig
        /\ Deep(heap, cpy) = snap_copy
        /\ to_string(Deep(heap, orig)) = to_string(snap_orig)
        /\ to_string(Deep(heap, cpy)) = to_string(snap_copy)

\* C7: a tree with a child was copied, and the recursive substitution just
\* made through the copy changed the text of the copy's child, which now
\* differs from the text of the original's child.
C7_Witness ==
    /\ cpy # 0
    /\ last.op = "set_text_params_recursive"
    /\ last.target = cpy
    /\ heap[orig].children # <<>>
    /\ heap[cpy].children # <<>>
    /\ heap[heap[cpy].children[1]].text_content = S("v")
    /\ heap[heap[orig].children[1]].text_content = S("{{a}}")

\* The attributes of an element with every value substituted.
SubstitutedAttributes(attributes, params) ==
    [k \in DOMAIN attributes |-> parse_html_with_params(attributes[k], params)]

\* C8: a recursive substitution on an element replaces the text content and
\* every attribute value, of the element and of each of its descendants, by
\* their substitution, and leaves the tags, the attribute names and the
\* children as they were.
C8_SubstitutesTextAndAttributes ==
    [][last'.op = "set_text_params_recursive" =>
          \A n \in Reach(heap, last'.target) :
              /\ heap'[n].text_content =
                     parse_html_with_params(heap[n].text_content, last'.params)
              /\ heap'[n].attributes =
                     SubstitutedAttributes(heap[n].attributes, last'.params)
              /\ heap'[n].tag = heap[n].tag
              /\ heap'[n].children = heap[n].children]_vars

(***************************************************************************)
(* Attribute parsing (AttrSpec)                                            *)
(***************************************************************************)

\* The map the items of a sequence stand for: the quoted value of a name,
\* the empty string for a bare name, the later item for a repeated name.
RECURSIVE ItemsMap(_, _)
ItemsMap(is, m) ==
    IF is = <<>> THEN m
    ELSE ItemsMap(Tail(is), MapPut(m, AttrItems[is[1]].name, AttrItems[is[1]].value))

\* Every attribute text made of items, with the map it stands for.
ItemTable == {<<ItemsText(is), ItemsMap(is, EmptyMap)>> : is \in ItemSeqs}

\* C17: class="a b" disabled parses to {class: "a b", disabled: ""}, and
\* any sequence of name="value" and bare names, in any mix and order,
\* parses to the map of each quoted name to the text between its quotes
\* (whitespace, = and / inside the quotes included, the empty text too)
\* and of each bare name to the empty string.
C17_QuotedAndBooleanAttributes ==
    attr_pc = "done" =>
        /\ \A e \in ItemTable : attr_text = e[1] => attr_result = e[2]
        /\ attr_text = S("class=\"a b\" disabled") =>
              attr_result = MapPut(MapPut(EmptyMap, S("class"), S("a b")),
                                   S("disabled"), <<>>)

\* C17: a bare name, a quoted value with whitespace, = and / in it, and a
\* quoted empty value, in this order.
C17_Witness ==
    /\ attr_pc = "done"
    /\ attr_text = S("hidden title=\" =\t/ \" alt=\"\"")
    /\ DOMAIN attr_result = {S("hidden"), S("title"), S("alt")}
    /\ attr_result[S("hidden")] = <<>>
    /\ attr_result[S("title")] = S(" =\t/ ")
    /\ attr_result[S("alt")] = <<>>

\* Whitespace written between the = and the opening quote.
Gaps == {S(" "), S("\t"), S("  ")}

\* What follows the quoted value: nothing, or a bare name.
AfterValue == {<<>>, S(" b")}

\* C18: whitespace between an unquoted = and the opening quote changes
\* nothing: the quoted span is the value of the key the = ended, no
\* boolean attribute is stored for the whitespace and the key is kept.
C18_WhitespaceAfterEquals ==
    \A gap \in Gaps, rest \in AfterValue :
        (attr_pc = "done"
         /\ attr_text = S("a=") \o gap \o S("\"x\"") \o rest) =>
            attr_result = parse_attributes(S("a=\"x\"") \o rest)

\* The number of double quotes of a text.
Quotes(text) == Cardinality({i \in DOMAIN text : text[i] = "\""})

\* The text ends with a / that stands after a closing quote or after
\* whitespace, outside quotes.
HasTrailingSlash(text) ==
    /\ Len(text) >= 2
    /\ text[Len(text)] = "/"
    /\ text[Len(text) - 1] \in {"\"", " "}
    /\ Quotes(text) % 2 = 0

\* C19: the map parse_attributes returns has no entry whose key is the
\* empty string, a lone / or a lone space, and a / that ends the text after
\* a closing quote or after whitespace leaves the map what it is without it.
C19_NoStrayKeys ==
    attr_pc = "done" =>
        /\ DOMAIN attr_result \cap {<<>>, S("/"), S(" ")} = {}
        /\ HasTrailingSlash(attr_text) =>
              attr_result = parse_attributes(SubSeq(attr_text, 1, Len(attr_text) - 1))

\* C19: the / of <img src="a" /> after the attribute, and the map is the
\* attribute alone.
C19_Witness ==
    /\ attr_pc = "done"
    /\ attr_text = S("src=\"a\" /")
    /\ attr_result = MapPut(EmptyMap, S("src"), S("a"))

(***************************************************************************)
(* Comments, tags that do not end, implicit close (MarkupSpec)             *)
(***************************************************************************)

\* Some <!-- of the text has no --> after it.
HasOpenComment(text) ==
    \E i \in 0..(Len(text) - 1) :
        /\ SubStr(text, i, 4) = S("<!--")
        /\ Find(text, S("-->"), i + 4) = npos

Html(text) == remove_all_line_breaks(transform_tags_to_lower_case(text))

\* The positions of the < of the text that have no > after them.
OpenLts(text) ==
    {i \in 0..(Len(text) - 1) : text[i + 1] = "<" /\ Find(text, S(">"), i) = npos}

FirstOpenLt(text) == CHOOSE i \in OpenLts(text) : \A j \in OpenLts(text) : i <= j

\* The builder gets as far as position i: what is before i makes it neither
\* fail nor stop at a closing tag of the top level.
BuilderReaches(text, i) ==
    /\ parse_html_optimized(SubStr(text, 0, i), 0, i).err = NoError
    /\ parse_html_optimized(SubStr(text, 0, i), 0, i).pos = i

\* C14: when the builder comes to a < that has no > after it, at the top
\* level or inside any number of open elements, Parse fails with
\* UnterminatedTag and returns no tree.
C14_UnterminatedTagIsFatal ==
    (/\ Done /\ round = 0
     /\ Find(input, S("<!"), 0) = npos
     /\ OpenLts(Html(input)) # {}
     /\ BuilderReaches(Html(input), FirstOpenLt(Html(input)))) =>
        /\ pc = "failed"
        /\ error = UnterminatedTag
        /\ forest = <<>>

\* C14: the tag that does not end is inside two open elements, after text.
C14_Witness ==
    /\ input = S("<div><p>done<p")
    /\ pc = "failed"
    /\ error = UnterminatedTag
    /\ forest = <<>>

\* What can stand, complete, before an opening tag.
ClosedPrefixes == {<<>>, S("done"), S("<div></div>"), S("<p>done</p>")}

\* What follows the opening tag has no closing tag, and parses.
RunsToEnd(rest) ==
    /\ Find(rest, S("</"), 0) = npos
    /\ parse_html_string(rest).err = NoError

\* C15: when nothing after an opening tag closes it (no closing tag up to
\* the end of the input), Parse raises no error: the element is the last
\* root of the forest, after what stood before it, its children are all
\* the nodes parsed from its opening tag to the end, and the builder
\* returns the end of the range as its position.
C15_ImplicitCloseAtEnd ==
    \A pre \in ClosedPrefixes, t \in TagNames :
        (/\ pc \in {"parsed", "failed"} /\ round = 0
         /\ Find(input, S("<!"), 0) = npos
         /\ IsPrefix(pre \o OpenTag(t), input)
         /\ RunsToEnd(SubStrFrom(input, Len(pre \o OpenTag(t))))) =>
            /\ pc = "parsed"
            /\ error = NoError
            /\ forest = parse_html_string(pre).result \o
                   <<Regular(t, parse_html_string(
                        SubStrFrom(input, Len(pre \o OpenTag(t)))).result)>>
            /\ parse_html_optimized(Html(input), 0, Len(Html(input))).pos
                   = Len(Html(input))

\* C15: neither the div nor the p in it is closed, and the forest is the
\* div holding the p holding the text.
C15_Witness ==
    /\ input = S("<div><p>done")
    /\ pc = "parsed"
    /\ forest = <<Regular(S("div"),
                    <<Regular(S("p"), <<TextElement(S("done"))>>)>>)>>

\* C16: a comment leaves nothing in the forest: the input with a comment
\* in it (text, a tag, a closing tag, part of a tag or a doctype declaration
\* written inside the comment) parses to what the input without the
\* comment parses to, and "<!-- x -->done" to the one text node "done".
C16_CommentsLeaveNoTrace ==
    /\ \A a \in BeforeComment, c \in InsideComment, b \in AfterComment :
          (Done /\ round = 0 /\ input = Commented(a, c, b)) =>
              /\ forest = parse_html_string(a \o b).result
              /\ error = parse_html_string(a \o b).err
    /\ (Done /\ round = 0 /\ input = S("<!-- x -->done")) =>
          forest = <<TextElement(S("done"))>>

\* C16: a doctype declaration inside a comment, in an open div, before a
\* text: the forest is the div holding the text, and no Doctype node.
C16_Witness ==
    /\ input = S("<div><!--<!DOCTYPE html>-->done")
    /\ pc = "parsed"
    /\ forest = <<Regular(S("div"), <<TextElement(S("done"))>>)>>

\* The keyword of a doctype declaration with the separating space, in
\* several letter cases.
DoctypeKeywords == {S("<!DOCTYPE "), S("<!doctype "), S("<!DocType ")}

DoctypePayloads == {S("html"), S("html PUBLIC")}

\* C20: the payload of the Doctype node is the text between the keyword
\* with its one separating space and the closing >, so the node of
\* <!DOCTYPE html> has the payload html and serializes to <!DOCTYPE html>.
C20_DoctypePayloadIsExact ==
    \A k \in DoctypeKeywords, payload \in DoctypePayloads :
        (Done /\ round = 0 /\ input = k \o payload \o S(">")) =>
            /\ pc = "parsed"
            /\ forest = <<doctype_element(payload)>>
            /\ to_string(forest[1]) = S("<!DOCTYPE ") \o payload \o S(">")

(***************************************************************************)
(* Content mutations of Void and Doctype elements (LeafSpec)               *)
(***************************************************************************)

\* C11: whatever add-child and set-text calls were made, a Void element
\* serializes as it did when it was made (tag and attributes, no content),
\* its children read as empty and its text content reads as the empty
\* string.  The calls raise nothing: they are steps like any other.
C11_VoidIgnoresContent ==
    \A n \in Ids :
        heap[n].kind = "self_closing_element" =>
            /\ to_string(Deep(heap, n)) =
                   to_string(self_closing_element(heap[n].tag, heap[n].attributes))
            /\ get_children(heap, n) = <<>>
            /\ get_text_content(heap, n) = <<>>

\* C11: the first element is a Void element on which a text was set (its
\* member holds it) and to which the second element was given as a child
\* (it is nobody's child).
C11_Witness ==
    /\ Len(heap) = 2
    /\ heap[1].kind = "self_closing_element"
    /\ heap[1].text_content = S("v")
    /\ heap[1].children = <<>>

\* C12: whatever add-child and set-text calls were made, a Doctype element
\* serializes as <!DOCTYPE payload> with the payload it was made with,
\* which is html for every Doctype element made here.
C12_DoctypeIgnoresContent ==
    \A n \in Ids :
        heap[n].kind = "doctype_element" =>
            to_string(Deep(heap, n)) = S("<!DOCTYPE html>")

(***************************************************************************)
(* Substitution in one pass: every placeholder of a key of params that     *)
(* occurs in the text gives way to the key's value, everything else is     *)
(* copied, and what was inserted is not looked at again.                   *)
(***************************************************************************)
KeysAt(text, params, i) ==
    {k \in DOMAIN params : SubStr(text, i, Len(Placeholder(k))) = Placeholder(k)}

RECURSIVE OnePass(_, _, _)

OnePassAt(text, params, i, keys) ==
    IF keys = {}
    THEN <<text[i + 1]>> \o OnePass(text, params, i + 1)
    ELSE params[CHOOSE k \in keys : TRUE]
         \o OnePass(text, params, i + Len(Placeholder(CHOOSE k \in keys : TRUE)))

OnePass(text, params, i) ==
    IF i >= Len(text) THEN <<>>
    ELSE OnePassAt(text, params, i, KeysAt(text, params, i))

Chars(str) == {str[i] : i \in DOMAIN str}

Braces == {"{", "}"}

\* Keys without braces, and values that are not empty and are made of
\* characters that are neither braces nor characters of a key.
PlainParams(params) ==
    /\ \A k \in DOMAIN params : Chars(k) \cap Braces = {}
    /\ \A k \in DOMAIN params :
          /\ params[k] # <<>>
          /\ Chars(params[k]) \cap Braces = {}
          /\ \A k2 \in DOMAIN params : Chars(params[k]) \cap Chars(k2) = {}

(***************************************************************************)
(* C9: Substitute replaces every occurrence of {{key}} in the text, for    *)
(* every key of params, with the key's value and leaves the placeholders   *)
(* of other keys as they are: "Hello {{name}}!" with {name: "World"}       *)
(* gives "Hello World!", "{{missing}}" with {} is unchanged, and with an   *)
(* empty map the result is the input.  Checked as equality with the        *)
(* one-pass substitution, for a map of one key and for maps whose values   *)
(* are plain text.                                                         *)
(***************************************************************************)
C9_SubstituteReplacesEveryOccurrence ==
    subst_pc = "done" =>
        /\ parameters = EmptyMap => substituted = template
        /\ (template = S("Hello {{name}}!") /\ parameters = NameWorld) =>
              substituted = S("Hello World!")
        /\ (template = S("{{missing}}") /\ S("missing") \notin DOMAIN parameters) =>
              substituted = S("{{missing}}")
        /\ (Cardinality(DOMAIN parameters) = 1 \/ PlainParams(parameters)) =>
              substituted = OnePass(template, parameters, 0)

\* C9: both occurrences of {{a}} were replaced and {{b}}, whose key is not
\* in params, was left as it is.
C9_Witness ==
    /\ subst_pc = "done"
    /\ template = S("{{a}}{{b}}{{a}}")
    /\ DOMAIN parameters = {S("a")}
    /\ parameters[S("a")] = S("x")
    /\ substituted = S("x{{b}}x")

(***************************************************************************)
(* C10 as stated: a value that is inserted is never scanned again, so      *)
(* when the text is the placeholder of a key the result is that key's      *)
(* value as it is, also when the value holds the placeholder of a key of   *)
(* params.                                                                 *)
(***************************************************************************)
C10_NoNestedExpansion ==
    subst_pc = "done" =>
        \A k \in DOMAIN parameters :
            template = Placeholder(k) => substituted = parameters[k]

(***************************************************************************)
(* Doctype placement, whole-input parsing, termination (MarkupSpec)        *)
(***************************************************************************)

\* The buffer the tree builder would get if no declaration were taken out:
\* the input without comments, tag names in lower case, no line breaks.
Buffer ==
    remove_all_line_breaks(
        transform_tags_to_lower_case(remove_all_comments(input).html))

DeclarationStart == Find(Buffer, S("<!doctype"), 0)

DeclarationEnd == Find(Buffer, S(">"), DeclarationStart)

\* The buffer holds a complete <!doctype ...> span.
HasDeclaration ==
    /\ remove_all_comments(input).err = NoError
    /\ DeclarationStart # npos
    /\ DeclarationEnd # npos

\* What is written before and after the span, joined.
AroundDeclaration ==
    SubStr(Buffer, 0, DeclarationStart) \o SubStrFrom(Buffer, DeclarationEnd + 1)

\* C21: wherever the complete <!doctype ...> span stands in the preprocessed
\* input (at its start, after or inside other markup), it is taken out
\* before the tree is built: Parse fails exactly when the builder fails on
\* the buffer without the span, and when it succeeds the first node of the
\* forest is the Doctype node and the nodes built from the rest of the
\* buffer follow it in their order.
C21_DoctypeFirst ==
    (Done /\ round = 0 /\ HasDeclaration) =>
        /\ error = solve_recursive(AroundDeclaration).err
        /\ pc = "parsed" =>
              /\ forest # <<>>
              /\ forest[1].kind = "doctype_element"
              /\ Tail(forest) = solve_recursive(AroundDeclaration).result

\* C21: the declaration stands inside a div, and the forest is the Doctype
\* node and then the div, empty.
C21_Witness ==
    /\ input = S("<div><!DOCTYPE html></div>")
    /\ pc = "parsed"
    /\ Len(forest) = 2
    /\ forest[1].kind = "doctype_element"
    /\ forest[2] = Regular(S("div"), <<>>)

(***************************************************************************)
(* Trees changed by add_child calls that are given any element, new or     *)
(* already in the tree.  The first element is a root; the parser and the   *)
(* caller add new elements (AddChild), the caller adds existing ones.      *)
(***************************************************************************)

ShareTemplates ==
    {element(S("div"), <<>>, EmptyMap), element(S("p"), <<>>, EmptyMap)}

\* The number of slots of child lists that hold the element id.
Slots(h, id) ==
    Cardinality({pi \in UNION {{<<p, i>> : i \in DOMAIN h[p].children} :
                                  p \in DOMAIN h} :
                    h[pi[1]].children[pi[2]] = id})

RECURSIVE SlotsInUse(_, _)
SlotsInUse(h, upto) ==
    IF upto = 0 THEN 0 ELSE Len(h[upto].children) + SlotsInUse(h, upto - 1)

ShareInit ==
    /\ ParserIdle
    /\ SubstIdle
    /\ TreeIdle
    /\ AttrIdle

\* parent.add_child(child), child being an element made before: the
\* shared_ptr is pushed to the list of the parent.
AddExisting(parent, child) ==
    /\ SlotsInUse(heap, Len(heap)) < MaxNodes
    /\ heap' = add_child(heap, parent, child)
    /\ last' = NoOp
    /\ UNCHANGED <<orig, cpy, snap_orig, snap_copy>>
    /\ UNCHANGED <<parserVars, substVars, attrVars>>

ShareNext ==
    \/ \E e \in ShareTemplates : NewElement(e)
    \/ \E parent \in Ids, e \in ShareTemplates : AddChild(parent, e)
    \/ \E parent \in Ids, child \in Ids : AddExisting(parent, child)

ShareSpec == ShareInit /\ [][ShareNext]_vars

(***************************************************************************)
(* Serialization of Void and Regular elements                              *)
(***************************************************************************)

\* The elements a caller makes and prints: a div whose attributes are given
\* as {{"id", "x"}, {"class", "c"}}, a p without any, and an element with
\* the tag NO_TAG.
PrintTemplates ==
    {element(S("div"), <<>>,
         MapPut(MapPut(EmptyMap, S("id"), S("x")), S("class"), S("c"))),
     element(S("p"), <<>>, EmptyMap),
     element(S("NO_TAG"), S("hi"), EmptyMap)}

PrintInit ==
    /\ ParserIdle
    /\ SubstIdle
    /\ TreeIdle
    /\ AttrIdle

PrintNext ==
    \/ \E e \in PrintTemplates : NewElement(e)
    \/ \E parent \in Ids, e \in PrintTemplates : AddChild(parent, e)
    \/ \E n \in Ids, t \in NewTexts : SetTextContent(n, t)

PrintSpec == PrintInit /\ [][PrintNext]_vars

Voids == {n \in Ids : heap[n].kind = "self_closing_element"}

\* C22 as stated: a Void node prints as <tag attrs/>, the attributes bare
\* when their value is empty, with nothing between the last attribute and
\* />, whatever was added to it or set on it.
C22_VoidSerializationAsStated ==
    \A n \in Voids :
        to_string(Deep(heap, n)) =
            IF heap[n].tag = S("img") THEN S("<img alt src=\"{{a}}\"/>")
            ELSE S("<br/>")

\* C22: a Void node prints as <tag attrs />, the attributes bare when their
\* value is empty and a space before />, with no closing tag and no text or
\* child, whatever was added to it or set on it.
C22_VoidSerialization ==
    \A n \in Voids :
        /\ to_string(Deep(heap, n)) =
               IF heap[n].tag = S("img") THEN S("<img alt src=\"{{a}}\" />")
               ELSE S("<br />")
        /\ Find(to_string(Deep(heap, n)), S("</"), 0) = npos

\* C22: an img on which a text was set through the overload with params,
\* printed without it.
C22_Witness ==
    \E n \in Voids :
        /\ heap[n].tag = S("img")
        /\ heap[n].text_content = S("v")
        /\ to_string(Deep(heap, n)) = S("<img alt src=\"{{a}}\" />")

\* The attributes of the elements made in PrintSpec, as they print.
PrintedAttributes(tag) ==
    IF tag = S("div") THEN S(" class=\"c\" id=\"x\"") ELSE <<>>

\* <t attrs> newline text newline children </t> newline
PrintedRegular(e) ==
    S("<") \o e.tag \o PrintedAttributes(e.tag) \o S(">\n")
    \o e.text_content \o S("\n")
    \o ChildrenToString(e.children)
    \o S("</") \o e.tag \o S(">\n")

\* C23 as stated: every Regular node with a non-empty tag t prints as
\* <t attrs> newline text newline children </t> newline, attributes in
\* ascending key order.
C23_RegularSerializationAsStated ==
    \A n \in Ids :
        (heap[n].kind = "element" /\ heap[n].tag # <<>>) =>
            to_string(Deep(heap, n)) = PrintedRegular(Deep(heap, n))

\* C23: every Regular node with a non-empty tag t other than NO_TAG prints
\* as <t attrs> newline text newline children </t> newline, the attributes
\* in ascending key order whatever the order they were given in; a node
\* with the tag NO_TAG prints as its text content alone.
C23_RegularSerialization ==
    \A n \in Ids :
        (heap[n].kind = "element" /\ heap[n].tag # <<>>) =>
            to_string(Deep(heap, n)) =
                IF heap[n].tag = S("NO_TAG") THEN heap[n].text_content
                ELSE PrintedRegular(Deep(heap, n))

\* C23: a div given id before class, with a text and a p under it.
C23_Witness ==
    \E n \in Ids :
        /\ heap[n].tag = S("div")
        /\ heap[n].text_content = S("v")
        /\ Len(heap[n].children) = 1
        /\ to_string(Deep(heap, n)) =
               S("<div class=\"c\" id=\"x\">\nv\n<p>\n\n</p>\n</div>\n")

(***************************************************************************)
(* Runs of text between tags (RunSpec)                                     *)
(***************************************************************************)

\* The run as the builder sees it: line breaks are removed before.
Seen(run) == SelectSeq(run, LAMBDA c : c # "\n")

\* The nodes a run of text gives: one text node holding the run when one
\* of its characters is not a blank, none otherwise.
NodesOfRun(run) ==
    IF \E i \in DOMAIN Seen(run) : Seen(run)[i] \notin {" ", "\t", "\r"}
    THEN <<TextElement(Seen(run))>>
    ELSE <<>>

PHi == Regular(S("p"), <<TextElement(S("Hi"))>>)

\* C24: no text node of a parsed forest, at any depth, is empty or made of
\* blanks only, and a run of text between two tags, after the last tag or
\* before the first one gives a text node exactly when one of its
\* characters is not a blank.
C24_NoBlankTextNode ==
    (Done /\ round = 0) =>
        /\ pc = "parsed"
        /\ \A e \in NodesOf(forest) :
              e.tag = S("text") =>
                  \E i \in DOMAIN e.text_content :
                      e.text_content[i] \notin WhiteSpace
        /\ \A run \in Runs :
              /\ input = BetweenOpenings(run) =>
                    forest = <<Regular(S("div"), NodesOfRun(run) \o <<PHi>>)>>
              /\ input = BetweenClosings(run) =>
                    forest = <<Regular(S("div"), <<PHi>> \o NodesOfRun(run))>>
              /\ input = AfterLastTag(run) =>
                    forest = <<Regular(S("div"), <<>>)>> \o NodesOfRun(run)
              /\ input = AfterLastOpening(run) =>
                    forest = <<Regular(S("div"),
                                 <<Regular(S("p"), NodesOfRun(run))>>)>>
              /\ input = BeforeFirstTag(run) =>
                    forest = NodesOfRun(run)
                             \o <<self_closing_element(S("br"), EmptyMap)>>

\* C24: a tab and a space between the p and the closing tag of the div give
\* no node.
C24_Witness ==
    /\ input = BetweenClosings(<<"\t", " ">>)
    /\ pc = "parsed"
    /\ round = 0
    /\ forest = <<Regular(S("div"), <<PHi>>)>>

(***************************************************************************)
(* Termination of the substitution (LoopSpec)                              *)
(***************************************************************************)

\* C25: Substitute returns for every text and every params map, a value
\* that holds its own placeholder, an empty value and a removal that joins
\* the text around it into a new placeholder included; what it returns is
\* the result of parse_html_with_params.
C25_SubstituteTerminates ==
    <>(/\ subst_pc = "done"
       /\ substituted = parse_html_with_params(template, parameters))

\* C25: the call returned after the removal of {{a}} from {{{{a}}a}} joined
\* the text around it into {{a}}.
C25_Witness ==
    /\ subst_pc = "done"
    /\ template = S("{{{{a}}a}}")
    /\ parameters = [k \in {S("a")} |-> <<>>]
    /\ substituted = S("{{a}}")
    /\ subst_keys = <<>>

(***************************************************************************)
(* Ownership (ShareSpec)                                                   *)
(***************************************************************************)

\* The elements reached from id in at most k steps down the child lists.
RECURSIVE Below(_, _, _)
Below(h, id, k) ==
    IF k = 0 THEN {}
    ELSE Range(h[id].children)
         \cup UNION {Below(h, c, k - 1) : c \in Range(h[id].children)}

\* C26: after any sequence of add_child calls every element is held in
\* exactly one place, the root at its root position and every other element
\* in one slot of one child list, and no element is below itself.
C26_SingleOwnership ==
    \A n \in Ids :
        /\ Slots(heap, n) = (IF n = 1 THEN 0 ELSE 1)
        /\ n \notin Below(heap, n, Len(heap))

(***************************************************************************)
(* The whole input is parsed (Spec)                                        *)
(***************************************************************************)

\* The buffer the tree builder gets for an input without a comment or a
\* doctype declaration.
Built == remove_all_line_breaks(transform_tags_to_lower_case(input))

\* C27: when Parse succeeds the top-level call of the builder stopped at
\* the end of the buffer, so the markup after a closing tag that closes
\* nothing is in the forest: </div><p>Hi</p> gives the p with its text.
C27_WholeInputParsed ==
    (pc = "parsed" /\ round = 0) =>
        /\ solve_recursive(Built).pos = Len(Built)
        /\ input = S("</div><p>Hi") => forest = <<PHi>>

(***************************************************************************)
(* Copies of elements of every kind (TreeSpec)                             *)
(***************************************************************************)

\* C28: the copy of a tree, Void elements in it or at its top included,
\* is of the kind of the original, node by node, and prints as the original
\* prints.
C28_CopyKeepsKind ==
    [][\A a \in Ids :
          Copy(a) =>
              /\ heap'[cpy'].kind = heap'[orig'].kind
              /\ to_string(Deep(heap', cpy')) = to_string(Deep(heap', orig'))]_vars

(***************************************************************************)
(* Termination of the tree builder (BuilderSpec)                           *)
(***************************************************************************)

\* The position a step that returns hands to the caller.
ReturnedPos ==
    IF Top.pos < End /\ Find(input, S("<"), Top.pos) < End
    THEN Find(input, S("<"), Top.pos)
    ELSE End

\* A step of the builder after which it is still running: an iteration of
\* the same call moved pos forward, or a recursive call was made at a
\* position after the tag start of the caller, or a call returned a
\* position not before its start and the caller moved its pos forward.
Progress ==
    (pc = "building" /\ pc' = "building") =>
        /\ Len(frames') = Len(frames) =>
              frames'[Len(frames')].pos > Top.pos
        /\ Len(frames') > Len(frames) =>
              /\ Len(frames') = Len(frames) + 1
              /\ frames'[Len(frames')].start > frames'[Len(frames)].tag_start
              /\ frames'[Len(frames)].tag_start >= Top.pos
        /\ Len(frames') < Len(frames) =>
              /\ Len(frames') = Len(frames) - 1
              /\ ReturnedPos >= Top.start
              /\ frames'[Len(frames')].pos > frames[Len(frames')].pos
              /\ frames'[Len(frames')].pos >= ReturnedPos

\* C29: the tree builder terminates on every input: every iteration of its
\* loop returns, fails or moves pos strictly forward, every recursive call
\* starts after the tag start of its caller, the position a call returns is
\* never before its start, and in the end the builder has returned the
\* forest or thrown the error of parse_html_optimized.
C29_BuilderTerminates ==
    /\ [][Progress]_vars
    /\ <>(/\ Done
          /\ error = solve_recursive(input).err
          /\ forest = solve_recursive(input).result)

\* C29: the builder returned the div, the p and the text of <div><p>Hi,
\* after two recursive calls.
C29_Witness ==
    /\ input = S("<div><p>Hi")
    /\ pc = "parsed"
    /\ frames = <<>>
    /\ forest = <<Regular(S("div"), <<PHi>>)>>

(***************************************************************************)
(* Completeness of the comment removal (MarkupSpec)                        *)
(***************************************************************************)

\* C30: when remove_all_comments returns, the buffer holds no <!--, not
\* even one made of the text before and the text after a removed comment.
C30_NoCommentOpenerLeft ==
    (Done /\ round = 0 /\ remove_all_comments(input).err = NoError) =>
        Find(remove_all_comments(input).html, S("<!--"), 0) = npos

====
